---- MODULE Spec2Model ----
(***************************************************************************)
(* Memeforge: the fabric.js canvas helpers (FabricHelpers: snapshot        *)
(* history, undo/redo, object manipulation), the editor hook that feeds    *)
(* the toolbar (useMemeEditor) and the server-side export path             *)
(* (exportMemeSchema, POST /api/export-meme, processCanvasExport).         *)
(*                                                                         *)
(* The canvas is a fabric.Canvas.  Three facts of that library matter to   *)
(* the code modelled here and are modelled with it:                        *)
(*   - canvas.add / canvas.remove / canvas.insertAt fire object:added /    *)
(*     object:removed synchronously, once per object;                      *)
(*   - canvas.loadFromJSON clears the canvas and then inserts every        *)
(*     object of the snapshot with insertAt;                               *)
(*   - canvas.toJSON() without a property list serialises the default      *)
(*     property set, which holds `visible` but neither `selectable` nor    *)
(*     the lockMovement/lockRotation/lockScaling flags.                    *)
(* canvas.clear() removes the objects with canvas.remove in fabric 4 and   *)
(* 5 and by truncating the array (no event) in fabric 3 and earlier; the   *)
(* repository does not pin the version, so clearFires is chosen in Init.   *)
(***************************************************************************)
EXTENDS Integers, Sequences, FiniteSets, TLC

\* ------------------------------------------------------------------ bounds

\* Most objects on the canvas at once.
MaxObjects == 2

\* Most saveState calls in one behaviour (Date.now() is modelled by the
\* number of the call); undo and redo may use all of them.
MaxCommits == 8

\* The editing operations run while fewer saveState calls than this were made.
MaxEdits == 4

\* The same, where every operation of the editor is enabled.
MaxEditorEdits == 2

\* FabricHelpers.maxHistorySize is 50 in the code; saveState is parametric in
\* it, and the model runs it with this smaller capacity.
HistoryCap == 3

\* The scene operations without an object event in a behaviour.
MaxSceneSteps == 3
MaxMemes == 3
MaxUploads == 2

\* How many times the +10 px offset of a duplicate may accumulate.
MaxShift == 1

\* ------------------------------------------------------------ scene objects

Texts == {"top", "bottom"}

Lefts == {250 + 10 * k : k \in 0..MaxShift}

\* Scales and opacities are kept in ten-thousandths: Unit is fabric's 1.
Unit == 10000

\* The product of two such numbers; the product of two positive numbers is
\* positive, however small.
Times(a, b) ==
    LET p == (a * b) \div Unit
    IN  IF p = 0 /\ a > 0 /\ b > 0 THEN 1 ELSE p

\* The size fabric measures for a text (its unscaled width and height); the
\* operations only divide by it.
TextSize == << 200, 40 >>

\* A fabric object on the canvas: its type; its string (a text) or source
\* (an image); its position (left; top is handled the same way everywhere);
\* scale, opacity and unscaled size; and the flags the helpers set.  `locked` stands for lockMovementX/Y, lockRotation and
\* lockScalingX/Y, which lockObject/unlockObject always set together.
NewText(text, left) ==
    [kind |-> "text", text |-> text, left |-> left,
     scaleX |-> Unit, scaleY |-> Unit, opacity |-> Unit,
     width |-> TextSize[1], height |-> TextSize[2], visible |-> TRUE,
     selectable |-> TRUE, locked |-> FALSE]

\* The two placeholder texts MemeCanvas puts on a new canvas.
Placeholders ==
    << [NewText("placeholder", 250) EXCEPT !.selectable = FALSE],
       [NewText("instruction", 250) EXCEPT !.selectable = FALSE] >>

\* canvas.toJSON(): the default property set of every object, in order.
ObjToJSON(o) ==
    [kind |-> o.kind, text |-> o.text, left |-> o.left,
     scaleX |-> o.scaleX, scaleY |-> o.scaleY, opacity |-> o.opacity,
     width |-> o.width, height |-> o.height, visible |-> o.visible]

ToJSON(objs) == [i \in 1..Len(objs) |-> ObjToJSON(objs[i])]

\* What fabric builds from one serialised object: the properties the JSON
\* does not carry take the class defaults.
ObjFromJSON(j) ==
    [kind |-> j.kind, text |-> j.text, left |-> j.left,
     scaleX |-> j.scaleX, scaleY |-> j.scaleY, opacity |-> j.opacity,
     width |-> j.width, height |-> j.height, visible |-> j.visible,
     selectable |-> TRUE, locked |-> FALSE]

\* -------------------------------------------------------------- the history

maxHistorySize == HistoryCap

VARIABLES
    objects,      \* canvas._objects, back to front
    active,       \* positions of the active object(s); two or more: an ActiveSelection
    history,      \* FabricHelpers.history
    historyStep,  \* FabricHelpers.historyStep
    now,          \* the number of saveState calls so far (the entry's timestamp)
    ui,           \* useMemeEditor's history state {canUndo, canRedo}
    clearFires,   \* whether canvas.clear() fires object:removed (fabric version)
    lastOp,       \* the operation that ran last
    lastResult,   \* what it returned (TRUE for void operations that acted)
    lastFired,    \* how many object events it fired
    discarded,    \* timestamps of the entries that were after the cursor at a commit
    g0,           \* the canvas the helper was attached to
    run,          \* "mut", "undo", "redo": the shape of the behaviour so far, or "off"
    committed,    \* the snapshots of the events of the run's mutations, in order
    runLen,       \* the undo() calls, then the redo() calls, of the run
    request,      \* the export call or POST /api/export-meme body made last
    response,     \* what it returned, once it has
    client,       \* useMemeEditor's exportMutation: idle, waiting, downloaded, failed
    canvasWidth,  \* the fabric canvas' width
    canvasHeight, \* and height
    backgroundColor, \* canvas.backgroundColor
    load,         \* the image load in progress (fabric.Image.fromURL) and its promise
    steps,        \* the number of scene operations so far that commit nothing
    elements,     \* the plain 2D MemeCanvas: its text elements, in drawing order
    backgroundImage, \* and its background image (its size), or NoImage
    plainSize,    \* the plain 2D MemeCanvas: width and height of its canvas element
    memes,        \* MemStorage.memes: the stored memes by id
    currentMemeId, \* MemStorage.currentMemeId
    lastStore,    \* the storage call made last, what it returned and the route's status
    uploads,      \* MemStorage.uploads: the upload records, in the order of their ids
    upload,       \* the upload made last: the file, how far it got, the route's status
    drag,         \* the drag in progress: the object dragged, whether it was moved or snapped
    snap,         \* the object:moving handler's last run on rectangles: input and result
    gen,          \* the AI generation in progress: component, calls made, its image load
    templates,    \* the ids of the rows of the templates table
    stickers,     \* the ids of the rows of the stickers table
    seed,         \* each seedDatabase invocation: where it is, what it ended with
    seen          \* what the last read of the routes found in the two tables

historyVars == << objects, active, history, historyStep, now, ui, clearFires,
                  lastOp, lastResult, lastFired, discarded, g0, run, committed,
                  runLen >>

exportVars == << request, response, client >>

sceneVars == << canvasWidth, canvasHeight, backgroundColor, load, steps >>

plainVars == << elements, backgroundImage, plainSize >>

storeVars == << memes, currentMemeId, lastStore >>

\* The state outside the editor's canvas and its export.
uploadVars == << uploads, upload >>

dragVars == << drag, snap >>

seedVars == << templates, stickers, seed, seen >>

otherVars == << storeVars, uploadVars, dragVars, gen, seedVars >>

vars == << historyVars, exportVars, sceneVars, plainVars, otherVars >>

\* saveState as it would be without the truncation of the entries after the
\* cursor (the branch survives a commit).
SaveStateKeepsBranch(h, objs) ==
    LET entry == [state |-> ToJSON(objs), timestamp |-> h.now]
        pushed == Append(h.history, entry)
        limited == IF Len(pushed) > maxHistorySize
                   THEN SubSeq(pushed, Len(pushed) - maxHistorySize + 1, Len(pushed))
                   ELSE pushed
    IN  [history |-> limited, historyStep |-> Len(limited) - 1, now |-> h.now + 1]

\* FabricHelpers.saveState on history record h for canvas objects objs.
\* saveState as it would be if the cursor were not put back on the last
\* entry after the history is cut to its maximum size.
SaveStateStaleCursor(h, objs) ==
    LET entry == [state |-> ToJSON(objs), timestamp |-> h.now]
        cut == IF h.historyStep < Len(h.history) - 1
               THEN SubSeq(h.history, 1, h.historyStep + 1)
               ELSE h.history
        pushed == Append(cut, entry)
        limited == IF Len(pushed) > maxHistorySize
                   THEN SubSeq(pushed, Len(pushed) - maxHistorySize + 1, Len(pushed))
                   ELSE pushed
    IN  [history |-> limited, historyStep |-> Len(pushed) - 1, now |-> h.now + 1]

SaveState(h, objs) ==
    LET entry == [state |-> ToJSON(objs), timestamp |-> h.now]
        cut == IF h.historyStep < Len(h.history) - 1
               THEN SubSeq(h.history, 1, h.historyStep + 1)
               ELSE h.history
        pushed == Append(cut, entry)
        limited == IF Len(pushed) > maxHistorySize
                   THEN SubSeq(pushed, Len(pushed) - maxHistorySize + 1, Len(pushed))
                   ELSE pushed
    IN  [history |-> limited, historyStep |-> Len(limited) - 1, now |-> h.now + 1]

canUndo == historyStep > 0

canRedo == historyStep < Len(history) - 1

\* useMemeEditor.handleCanvasChange: the flags it sets on every object event.
handleCanvasChange == [canUndo |-> TRUE, canRedo |-> FALSE]

\* ------------------------------------------------------- the fabric canvas

\* The canvas with its listeners' state, as one record, so that an operation
\* that fires several events threads it through them.  `fired` collects the
\* canvas as serialised at each object event of the current operation and
\* `dropped` the timestamps of the entries that were after the cursor when
\* an event arrived.
World ==
    [objects |-> objects, active |-> active, history |-> history,
     historyStep |-> historyStep, now |-> now, ui |-> ui,
     fired |-> << >>, dropped |-> {}]

\* One object:added / object:removed / object:modified event: the listeners
\* of FabricHelpers.setupEventListeners and of useMemeEditor run.
Fire(w) ==
    LET h == SaveState([history |-> w.history, historyStep |-> w.historyStep,
                        now |-> w.now], w.objects)
    IN  [w EXCEPT !.history = h.history,
                  !.historyStep = h.historyStep,
                  !.now = h.now,
                  !.ui = handleCanvasChange,
                  !.fired = Append(@, ToJSON(w.objects)),
                  !.dropped = @ \cup {w.history[i].timestamp :
                                        i \in (w.historyStep + 2)..Len(w.history)}]

\* canvas.add(o) / canvas.insertAt(o, last): append and fire object:added.
CanvasAdd(w, o) == Fire([w EXCEPT !.objects = Append(@, o)])

RemoveAt(s, i) == [k \in 1..(Len(s) - 1) |-> IF k < i THEN s[k] ELSE s[k + 1]]

\* canvas.remove(objects[i]): splice it out, drop it from the selection and
\* fire object:removed.
CanvasRemove(w, i) ==
    Fire([w EXCEPT !.objects = RemoveAt(@, i),
                   !.active = {IF p > i THEN p - 1 ELSE p : p \in @ \ {i}}])

Min(S) == CHOOSE x \in S : \A y \in S : x <= y

RECURSIVE CanvasRemoveAll(_, _)
\* canvas.remove of every object at the positions S, lowest first.
CanvasRemoveAll(w, S) ==
    IF S = {} THEN w
    ELSE LET p == Min(S)
         IN  CanvasRemoveAll(CanvasRemove(w, p), {q - 1 : q \in S \ {p}})

RECURSIVE CanvasAddAll(_, _)
\* canvas.add / insertAt of the objects of the sequence os, in order.
CanvasAddAll(w, os) ==
    IF os = << >> THEN w
    ELSE CanvasAddAll(CanvasAdd(w, Head(os)), Tail(os))

\* canvas.clear(): the selection is discarded and the objects go, with one
\* object:removed each when the library's clear() uses remove().
CanvasClear(w, fires) ==
    LET w1 == [w EXCEPT !.active = {}]
    IN  IF fires THEN CanvasRemoveAll(w1, 1..Len(w1.objects))
        ELSE [w1 EXCEPT !.objects = << >>]

\* FabricHelpers.loadState: canvas.loadFromJSON(state) clears the canvas and
\* inserts the snapshot's objects one by one.
LoadState(w, state, fires) ==
    CanvasAddAll(CanvasClear(w, fires), [i \in 1..Len(state) |-> ObjFromJSON(state[i])])

\* FabricHelpers.undo: the world after the call and what it returned.
Undo(w, fires) ==
    IF w.historyStep > 0
    THEN LET w1 == [w EXCEPT !.historyStep = @ - 1]
         IN  [world |-> LoadState(w1, w1.history[w1.historyStep + 1].state, fires),
              result |-> TRUE]
    ELSE [world |-> w, result |-> FALSE]

\* FabricHelpers.redo.
Redo(w, fires) ==
    IF w.historyStep < Len(w.history) - 1
    THEN LET w1 == [w EXCEPT !.historyStep = @ + 1]
         IN  [world |-> LoadState(w1, w1.history[w1.historyStep + 1].state, fires),
              result |-> TRUE]
    ELSE [world |-> w, result |-> FALSE]

\* FabricHelpers.createMemeText: a new text, added and made active.
CreateMemeText(w, text) ==
    LET w1 == CanvasAdd(w, NewText(text, 250))
    IN  [w1 EXCEPT !.active = {Len(w1.objects)}]

\* fabric's object.clone: rebuilt from the object's toObject(), so with the
\* default flags; duplicateActiveObject then moves the copy by 10 px.
Clone(o) == [ObjFromJSON(ObjToJSON(o)) EXCEPT !.left = @ + 10]

RECURSIVE Ascending(_)
\* The positions of S, lowest first (the order of an ActiveSelection's objects).
Ascending(S) ==
    IF S = {} THEN << >> ELSE << Min(S) >> \o Ascending(S \ {Min(S)})

\* FabricHelpers.duplicateActiveObject: one canvas.add for a single object,
\* one per member for an ActiveSelection; the copies become the selection.
DuplicateActiveObject(w) ==
    IF w.active = {} THEN [world |-> w, result |-> FALSE]
    ELSE LET sel == Ascending(w.active)
             copies == [k \in 1..Len(sel) |-> Clone(w.objects[sel[k]])]
             w1 == CanvasAddAll(w, copies)
         IN  [world |-> [w1 EXCEPT !.active =
                             (Len(w.objects) + 1)..(Len(w.objects) + Len(sel))],
              result |-> TRUE]

\* FabricHelpers.deleteActiveObject: one canvas.remove per selected object,
\* then discardActiveObject.
DeleteActiveObject(w) ==
    IF w.active = {} THEN [world |-> w, result |-> FALSE]
    ELSE [world |-> [CanvasRemoveAll(w, w.active) EXCEPT !.active = {}],
          result |-> TRUE]

\* `object || this.canvas.getActiveObject()`: object = 0 stands for the
\* argument left out.
TargetOf(w, object) == IF object # 0 THEN {object} ELSE w.active

\* The canvas with its objects in the order `order` (old positions).
Permute(w, order) ==
    [w EXCEPT !.objects = [k \in 1..Len(order) |-> w.objects[order[k]]],
              !.active = {k \in 1..Len(order) : order[k] \in w.active}]

Max(S) == CHOOSE x \in S : \A y \in S : x >= y

Swap(s, i, j) == [s EXCEPT ![i] = s[j], ![j] = s[i]]

RECURSIVE Forward(_, _, _)
\* canvas.bringForward: each target, topmost first, moves one place up
\* unless it already sits under the targets moved before it.
Forward(order, ms, moved) ==
    IF ms = {} THEN order
    ELSE LET m == Max(ms)
             idx == CHOOSE k \in 1..Len(order) : order[k] = m
         IN  Forward(IF idx < Len(order) - moved THEN Swap(order, idx, idx + 1)
                     ELSE order,
                     ms \ {m}, moved + 1)

RECURSIVE Backward(_, _, _)
\* canvas.sendBackward: each target, lowest first, moves one place down.
Backward(order, ms, moved) ==
    IF ms = {} THEN order
    ELSE LET m == Min(ms)
             idx == CHOOSE k \in 1..Len(order) : order[k] = m
         IN  Backward(IF idx > moved + 1 THEN Swap(order, idx, idx - 1)
                      ELSE order,
                      ms \ {m}, moved + 1)

Positions(w) == 1..Len(w.objects)

\* FabricHelpers.bringToFront / sendToBack / bringForward / sendBackward:
\* the canvas reorders its array and fires no object event.
BringToFront(w, object) ==
    LET S == TargetOf(w, object)
    IN  IF S = {} THEN w
        ELSE Permute(w, Ascending(Positions(w) \ S) \o Ascending(S))

SendToBack(w, object) ==
    LET S == TargetOf(w, object)
    IN  IF S = {} THEN w
        ELSE Permute(w, Ascending(S) \o Ascending(Positions(w) \ S))

BringForward(w, object) ==
    LET S == TargetOf(w, object)
    IN  IF S = {} THEN w
        ELSE Permute(w, Forward(Ascending(Positions(w)), S, 0))

SendBackward(w, object) ==
    LET S == TargetOf(w, object)
    IN  IF S = {} THEN w
        ELSE Permute(w, Backward(Ascending(Positions(w)), S, 0))

\* FabricHelpers.lockObject / unlockObject: the flags are set on the target;
\* for an ActiveSelection that is the selection object, not its members.
SetLock(w, object, on) ==
    LET S == TargetOf(w, object)
    IN  IF Cardinality(S) = 1
        THEN [w EXCEPT !.objects[Min(S)].locked = on,
                       !.objects[Min(S)].selectable = ~on]
        ELSE w

LockObject(w, object) == SetLock(w, object, TRUE)

UnlockObject(w, object) == SetLock(w, object, FALSE)

\* PropertiesPanel.toggleLayerVisibility.
ToggleLayerVisibility(w, i) == [w EXCEPT !.objects[i].visible = ~@]

\* A drag of object i released at `left`: fabric selects the object, moves
\* it and fires object:modified.
ObjectModified(w, i, left) ==
    Fire([w EXCEPT !.objects[i].left = left, !.active = {i}])

\* PropertiesPanel.updateObjectProperty('left', value): set on the selected
\* object, with no object event.
UpdateObjectProperty(w, left) ==
    IF Cardinality(w.active) = 1
    THEN [world |-> [w EXCEPT !.objects[Min(w.active)].left = left], result |-> TRUE]
    ELSE [world |-> w, result |-> FALSE]

\* fabric's Object.set on scaleX / scaleY (_constrainScale and the flip): a
\* scale of 0 becomes 0.0001 and a negative one flips the object and is
\* stored positive.
ConstrainScale(value) ==
    IF value = 0 THEN 1 ELSE IF value < 0 THEN 0 - value ELSE value

\* PropertiesPanel.updateObjectProperty('width' | 'height', value): the
\* scale that gives the selected object that size is set, with no event.
UpdateObjectSize(w, property, value) ==
    IF Cardinality(w.active) = 1
    THEN LET i == Min(w.active)
             o == w.objects[i]
             originalSize == IF property = "width" THEN o.width ELSE o.height
             scale == ConstrainScale((value * Unit) \div originalSize)
         IN  [world |-> IF property = "width"
                        THEN [w EXCEPT !.objects[i].scaleX = scale]
                        ELSE [w EXCEPT !.objects[i].scaleY = scale],
              result |-> TRUE]
    ELSE [world |-> w, result |-> FALSE]

\* PropertiesPanel.updateObjectProperty('opacity', value): value is a
\* percentage.
UpdateObjectOpacity(w, value) ==
    IF Cardinality(w.active) = 1
    THEN [world |-> [w EXCEPT !.objects[Min(w.active)].opacity =
                                  (value * Unit) \div 100],
          result |-> TRUE]
    ELSE [world |-> w, result |-> FALSE]

\* PropertiesPanel.deleteLayer / CanvasManager.removeObject: canvas.remove
\* of the layer's object.
DeleteLayer(w, i) == CanvasRemove(w, i)

\* The placeholder texts as MemeCanvas.addText / addImage find them: the
\* texts that are not selectable.
PlaceholdersOf(w) ==
    {i \in 1..Len(w.objects) :
        w.objects[i].kind = "text" /\ ~w.objects[i].selectable}

\* MemeCanvas.addText (fabric canvas): the placeholder texts are removed,
\* the text is added at left 250 and made active.
AddText(w, text) ==
    LET w1 == CanvasAdd(CanvasRemoveAll(w, PlaceholdersOf(w)), NewText(text, 250))
    IN  [w1 EXCEPT !.active = {Len(w1.objects)}]

\* A fabric.Image of the given unscaled size.
NewImage(left, scaleX, scaleY, width, height, selectable) ==
    [kind |-> "image", text |-> "src", left |-> left,
     scaleX |-> ConstrainScale(scaleX), scaleY |-> ConstrainScale(scaleY),
     opacity |-> Unit, width |-> width, height |-> height, visible |-> TRUE,
     selectable |-> selectable, locked |-> FALSE]

\* canvas.sendToBack of the object at position i (no object event).
ToBack(w, i) ==
    Permute(w, << i >> \o [k \in 1..(Len(w.objects) - 1) |->
                              IF k < i THEN k ELSE k + 1])

\* The scale that fits a width x height image into the canvas:
\* Math.min(canvasWidth / (img.width || 1), canvasHeight / (img.height || 1)).
FitScale(sc, width, height) ==
    LET sx == (sc.width * Unit) \div (IF width = 0 THEN 1 ELSE width)
        sy == (sc.height * Unit) \div (IF height = 0 THEN 1 ELSE height)
    IN  IF sx <= sy THEN sx ELSE sy

\* MemeCanvas.addImage (fabric canvas), before the load: the placeholder
\* texts are removed.
AddImageStart(w) == CanvasRemoveAll(w, PlaceholdersOf(w))

\* The callback as it would be without canvas.sendToBack(img).
AddImageLoadedOnTop(w, sc, width, height) ==
    LET scale == FitScale(sc, width, height)
    IN  CanvasAdd(w, NewImage(sc.width \div 2, scale, scale, width, height, TRUE))

\* MemeCanvas.addImage, the fromURL callback with the image: it is scaled
\* to fit, centred, added and sent to the back.
AddImageLoaded(w, sc, width, height) ==
    LET scale == FitScale(sc, width, height)
        w1 == CanvasAdd(w, NewImage(sc.width \div 2, scale, scale,
                                    width, height, TRUE))
    IN  ToBack(w1, Len(w1.objects))

\* CanvasManager.addImage, the callback with the image: added at
\* options.x || 100 with scale options.scaleX || 1.
ManagerAddImageLoaded(w, width, height) ==
    CanvasAdd(w, NewImage(100, Unit, Unit, width, height, TRUE))

\* CanvasManager.addMemeTemplate, the callback with the image and no text
\* areas: scaled to fit, not selectable, added and sent to the back.
AddMemeTemplateLoaded(w, sc, width, height) ==
    LET scale == FitScale(sc, width, height)
        w1 == CanvasAdd(w, NewImage(sc.width \div 2, scale, scale,
                                    width, height, FALSE))
    IN  ToBack(w1, Len(w1.objects))

\* useMemeEditor.clearCanvas / CanvasManager.clearCanvas.
ClearCanvas(w, fires) == CanvasClear(w, fires)

\* FabricHelpers.selectAllObjects.
SelectAllObjects(w) ==
    IF Len(w.objects) >= 1 THEN [w EXCEPT !.active = Positions(w)] ELSE w

\* FabricHelpers.deselectAll.
DeselectAll(w) == [w EXCEPT !.active = {}]

\* PropertiesPanel.selectLayer.
SelectLayer(w, i) == [w EXCEPT !.active = {i}]

\* ------------------------------------------------------------- bookkeeping

\* The shape of the behaviour after an operation that is neither undo nor
\* redo: a run of committed mutations goes on while every change of the
\* canvas comes with an event.
\* The labels of the user-level operations that change the objects.
Mutations == {"mutation", "clearCanvas"}

RunAfterEdit(w2) ==
    IF w2.fired = << >> /\ ToJSON(w2.objects) = ToJSON(objects) THEN run
    ELSE IF run = "mut" /\ w2.fired # << >> THEN "mut"
    ELSE "off"

Finish(op, result, w2) ==
    /\ objects' = w2.objects
    /\ active' = w2.active
    /\ history' = w2.history
    /\ historyStep' = w2.historyStep
    /\ now' = w2.now
    /\ ui' = w2.ui
    /\ lastOp' = op
    /\ lastResult' = result
    /\ lastFired' = Len(w2.fired)
    /\ discarded' = discarded \cup w2.dropped
    /\ UNCHANGED << clearFires, g0, exportVars, plainVars >>

\* The canvas, the history and the record of the behaviour after an
\* operation on the objects.
Track(op, result, w2) ==
    /\ Finish(op, result, w2)
    /\ run' = RunAfterEdit(w2)
    /\ committed' = IF run' = "mut" THEN committed \o w2.fired
                    ELSE IF run' = "off" THEN << >> ELSE committed
    /\ runLen' = IF run' \in {"mut", "off"} THEN 0 ELSE runLen

\* An operation on the objects, run while fewer than `limit` saveState calls
\* were made: the canvas, the history and the record of the behaviour after it.
Commit(limit, op, result, w2) ==
    /\ now < limit
    /\ w2.now <= MaxCommits
    /\ Len(w2.objects) <= MaxObjects
    /\ Track(op, result, w2)

\* An editing operation that leaves the canvas' size and background alone.
Edit(limit, op, result, w2) ==
    /\ Commit(limit, op, result, w2)
    /\ UNCHANGED << sceneVars, otherVars >>

\* --------------------------------------------------------------- operations

\* ----------------------------------------------------------------- the scene

\* The background MemeCanvas gives the canvas and clearCanvas gives back.
DefaultBackground == "#f3f4f6"

\* The plain canvas without a background image.
NoBackgroundImage == << 0, 0 >>

\* No fabric.Image.fromURL in progress.
\* `before`, `now0`, `now1` and `steps0` record the canvas and the counters
\* at the call (now1, steps0: after its synchronous part).
NoLoad == [via |-> "none", stage |-> "idle", width |-> 0, height |-> 0,
           promise |-> "none", before |-> << >>, now0 |-> 0, now1 |-> 0,
           steps0 |-> 0]

\* The canvas as the scene operations see it.
Scene ==
    [width |-> canvasWidth, height |-> canvasHeight,
     backgroundColor |-> backgroundColor, objects |-> objects]

\* setDimensions as it would be if the canvas' content were resized with
\* it: every object is moved in proportion to the new width.
SetDimensionsScaling(sc, width, height) ==
    [sc EXCEPT !.width = width, !.height = height,
               !.objects = [i \in 1..Len(sc.objects) |->
                              [sc.objects[i] EXCEPT
                                  !.left = (@ * width) \div sc.width]]]

\* canvas.setDimensions({ width, height }).
SetDimensions(sc, width, height) ==
    [sc EXCEPT !.width = width, !.height = height]

\* CanvasManager.setCanvasSize.
SetCanvasSize(sc, width, height) == SetDimensions(sc, width, height)

\* MemeEditor.handleCanvasSizeChange: the sizes of the three buttons.
CanvasSizes ==
    [square |-> << 500, 500 >>, landscape |-> << 600, 400 >>,
     portrait |-> << 400, 600 >>]

HandleCanvasSizeChange(sc, size) ==
    SetDimensions(sc, CanvasSizes[size][1], CanvasSizes[size][2])

\* PropertiesPanel.platformDimensions.
platformDimensions ==
    [instagram |-> << 1080, 1080 >>, facebook |-> << 1200, 630 >>,
     twitter |-> << 1200, 675 >>, linkedin |-> << 1200, 627 >>,
     youtube |-> << 1280, 720 >>, story |-> << 1080, 1920 >>,
     pinterest |-> << 1000, 1500 >>]

\* PropertiesPanel.handlePlatformChange.
HandlePlatformChange(sc, platform) ==
    SetDimensions(sc, platformDimensions[platform][1],
                  platformDimensions[platform][2])

\* MemeCanvas.exportAsDataURL / CanvasManager.exportCanvas: canvas.toDataURL
\* reads the canvas.
ExportAsDataURL(sc) == sc

\* FabricHelpers.exportWithBackground: the background is set for the
\* toDataURL call and the original one is put back.
ExportWithBackground(sc, color) ==
    LET originalBackground == sc.backgroundColor
        painted == [sc EXCEPT !.backgroundColor = color]
    IN  [painted EXCEPT !.backgroundColor = originalBackground]

\* FabricHelpers.exportArea: the area is drawn onto a temporary canvas.
ExportArea(sc) == sc

\* PropertiesPanel.handleExportForPlatform: the canvas is given the
\* platform's size and then exported.
HandleExportForPlatform(sc, platform) ==
    ExportAsDataURL(SetDimensions(sc, platformDimensions[platform][1],
                                  platformDimensions[platform][2]))

\* optimizeCanvasForExport: every object is scaled by the smaller of the
\* two ratios target / current (in ten-thousandths) and the canvas is given
\* the target size.  `obj.scaleX || 1`: a scale of 0 counts as 1.
OptimizeCanvasForExport(sc, targetWidth, targetHeight) ==
    LET scaleX == (targetWidth * Unit) \div sc.width
        scaleY == (targetHeight * Unit) \div sc.height
        scale == IF scaleX <= scaleY THEN scaleX ELSE scaleY
        Or1(v) == IF v = 0 THEN Unit ELSE v
        scaled == [i \in 1..Len(sc.objects) |->
                     [sc.objects[i] EXCEPT
                        !.scaleX = Times(Or1(@), scale),
                        !.scaleY = Times(Or1(@), scale),
                        !.left = (@ * scale) \div Unit]]
    IN  SetDimensions([sc EXCEPT !.objects = scaled], targetWidth, targetHeight)

\* ---------------------------------------------------------------- the export

Formats == {"png", "jpg", "gif"}
Qualities == {"low", "medium", "high"}
Policies == {"social", "print"}

\* The sizes of the canvas a data URL is taken from, and the target size a
\* caller asks for: << width, height >>; << 0, 0 >> is width and height
\* left out.
SceneSizes == {<< 500, 500 >>, << 1200, 630 >>}
TargetSizes == {<< 0, 0 >>, << 1080, 1080 >>}

\* canvasData: the data URL of a w x h image (a string), or a JSON object.
DataUrl(size) == [kind |-> "string", width |-> size[1], height |-> size[2]]
JsonObject(size) == [kind |-> "object", width |-> size[1], height |-> size[2]]

NoImage == [encoder |-> "none", quality |-> 0, compressionLevel |-> 0,
            width |-> 0, height |-> 0]

qualityMap == [low |-> 60, medium |-> 80, high |-> 95]

\* processCanvasExport.  canvasDataUrl.replace(...) throws on anything but
\* a string, and the catch rethrows 'Failed to process canvas export'.
\* resize(width, height, fit contain) gives exactly width x height.
\* png() without compressionLevel uses sharp's default, 6; jpeg() has no
\* compression level (0 here).
ProcessCanvasExport(canvasDataUrl, options) ==
    IF canvasDataUrl.kind # "string"
    THEN [ok |-> FALSE, image |-> NoImage]
    ELSE LET resized == /\ options.optimizeFor = "social"
                        /\ options.width # 0
                        /\ options.height # 0
             q == qualityMap[options.quality]
         IN  [ok |-> TRUE,
              image |->
                [encoder |-> IF options.format = "jpg" THEN "jpeg" ELSE "png",
                 quality |-> q,
                 compressionLevel |->
                     CASE options.format = "jpg" -> 0
                       [] options.format = "png" ->
                             IF options.quality = "low" THEN 9 ELSE 6
                       [] OTHER -> 6,
                 width |-> IF resized THEN options.width
                           ELSE canvasDataUrl.width,
                 height |-> IF resized THEN options.height
                            ELSE canvasDataUrl.height]]

\* exportMemeSchema.safeParse: canvasData has to be an object; the three
\* enums are as sent; any other key of the body is stripped.
exportMemeSchema(body) ==
    /\ body.canvasData.kind = "object"
    /\ body.format \in Formats
    /\ body.quality \in Qualities
    /\ body.optimizeFor \in Policies

mimeTypes == [png |-> "image/png", jpg |-> "image/jpeg", gif |-> "image/gif"]

\* The handler as it would be with the headers set before the image is
\* processed: a failure leaves the image content-type on the response.
ExportMemeRouteHeadersFirst(body) ==
    IF ~exportMemeSchema(body)
    THEN [status |-> 400, contentType |-> "application/json", image |-> NoImage]
    ELSE LET r == ProcessCanvasExport(body.canvasData,
                      [format |-> body.format, quality |-> body.quality,
                       optimizeFor |-> body.optimizeFor,
                       width |-> 0, height |-> 0])
         IN  [status |-> IF r.ok THEN 200 ELSE 500,
              contentType |-> mimeTypes[body.format], image |-> r.image]

\* The handler of POST /api/export-meme.
ExportMemeRoute(body) ==
    IF ~exportMemeSchema(body)
    THEN [status |-> 400, contentType |-> "application/json", image |-> NoImage]
    ELSE LET r == ProcessCanvasExport(body.canvasData,
                      [format |-> body.format, quality |-> body.quality,
                       optimizeFor |-> body.optimizeFor,
                       width |-> 0, height |-> 0])
         IN  IF r.ok
             THEN [status |-> 200, contentType |-> mimeTypes[body.format],
                   image |-> r.image]
             ELSE [status |-> 500, contentType |-> "application/json",
                   image |-> NoImage]

\* apiRequest (client/src/lib/queryClient): TRUE when it returns the
\* response, FALSE when it throws; it throws on a status outside 2xx.
apiRequest(res) == res.status \in 200..299

\* -------------------------------------------------------------- snapping

Abs(x) == IF x < 0 THEN 0 - x ELSE x

\* fabric's getBoundingRect of an object that is not rotated, with originX
\* 'center'; the model's objects have no vertical position.
BoundingRect(o) ==
    LET w == (o.width * o.scaleX) \div Unit
        h == (o.height * o.scaleY) \div Unit
    IN  [left |-> o.left - w \div 2, top |-> 0, width |-> w, height |-> h]

\* The body of the forEach of enableSnapping for one other object: pos is
\* the dragged object's left / top so far, objBounds its bounding rectangle
\* as taken before the loop.
SnapTo(pos, objBounds, otherBounds, snapDistance) ==
    LET dl == otherBounds.left - objBounds.left
        dr == (otherBounds.left + otherBounds.width)
                  - (objBounds.left + objBounds.width)
        dt == otherBounds.top - objBounds.top
        db == (otherBounds.top + otherBounds.height)
                  - (objBounds.top + objBounds.height)
        l1 == IF Abs(dl) < snapDistance THEN pos.left + dl ELSE pos.left
        l2 == IF Abs(dr) < snapDistance THEN l1 + dr ELSE l1
        t1 == IF Abs(dt) < snapDistance THEN pos.top + dt ELSE pos.top
        t2 == IF Abs(db) < snapDistance THEN t1 + db ELSE t1
    IN  [left |-> l2, top |-> t2]

RECURSIVE Snapping(_, _, _, _)
\* The object:moving handler of enableSnapping(snapDistance): the dragged
\* object's left / top after the loop over the other objects' rectangles.
Snapping(pos, objBounds, others, snapDistance) ==
    IF others = << >> THEN pos
    ELSE Snapping(SnapTo(pos, objBounds, Head(others), snapDistance),
                  objBounds, Tail(others), snapDistance)

\* The handler as it would be if it ended with an object:modified event.
ObjectMovingCommits(w, i, left, snapDistance) ==
    LET w1 == [w EXCEPT !.objects[i].left = left]
        others == [k \in 1..(Len(w.objects) - 1) |->
                     BoundingRect(w1.objects[IF k < i THEN k ELSE k + 1])]
        pos == Snapping([left |-> left, top |-> 0],
                        BoundingRect(w1.objects[i]), others, snapDistance)
    IN  Fire([w1 EXCEPT !.objects[i].left = pos.left])

\* A mouse move that drags object i to `left`: fabric moves the object and
\* fires object:moving, for which the snapping handler runs; no object
\* event of the history listeners is fired.
ObjectMoving(w, i, left, snapDistance) ==
    LET w1 == [w EXCEPT !.objects[i].left = left]
        others == [k \in 1..(Len(w.objects) - 1) |->
                     BoundingRect(w1.objects[IF k < i THEN k ELSE k + 1])]
        pos == Snapping([left |-> left, top |-> 0],
                        BoundingRect(w1.objects[i]), others, snapDistance)
    IN  [w1 EXCEPT !.objects[i].left = pos.left]

\* The invocations of seedDatabase.
MaxSeedRuns == 3

SeedRuns == 1..MaxSeedRuns

\* An invocation that was not made yet.
NotSeeding == [pc |-> "idle", error |-> "none"]

\* The ids of the rows seedDatabase inserts.
SeedTemplates ==
    {"drake", "distracted-boyfriend", "two-buttons", "woman-yelling-cat",
     "change-my-mind", "expanding-brain"}

SeedStickers ==
    {"laugh", "fire", "heart", "thumbs-up", "mind-blown", "crying-laugh",
     "thinking", "shrug"}

\* db.insert(table).values(rows) on a table whose id is the primary key:
\* one statement, which inserts every row or fails on a key that is there.
Insert(table, rows) ==
    IF table \cap rows # {} THEN [table |-> table, error |-> "duplicate key"]
    ELSE [table |-> table \cup rows, error |-> "none"]

\* No generation was answered yet.
NoGeneration ==
    [via |-> "none", stage |-> "none", load |-> "none", late |-> FALSE,
     adds |-> 0]

NoDrag == [target |-> 0, moved |-> FALSE, snapped |-> FALSE]

NoSnap ==
    [obj |-> [left |-> 0, top |-> 0, width |-> 0, height |-> 0],
     others |-> << >>, after |-> [left |-> 0, top |-> 0]]

\* ------------------------------------------------------------ MemStorage

\* The titles of the memes that are stored and of the updates.
Titles == {"a", "b"}

NoStoreCall == [op |-> "none", id |-> 0, found |-> FALSE, status |-> 0]

\* The storage as the calls see it; memes is a function from the ids in
\* use to the records.
Storage == [memes |-> memes, currentMemeId |-> currentMemeId]

\* Map.set(id, record).
MapSet(m, id, record) ==
    [k \in DOMAIN m \cup {id} |-> IF k = id THEN record ELSE m[k]]

\* Map.delete(id).
MapDelete(m, id) == [k \in DOMAIN m \ {id} |-> m[k]]

\* MemStorage.getMeme: found is FALSE for undefined.
GetMeme(st, id) == [storage |-> st, found |-> id \in DOMAIN st.memes]

\* MemStorage.createMeme.
CreateMeme(st, insertMeme) ==
    [storage |-> [memes |-> MapSet(st.memes, st.currentMemeId,
                                   [id |-> st.currentMemeId,
                                    title |-> insertMeme.title]),
                  currentMemeId |-> st.currentMemeId + 1],
     found |-> TRUE]

\* MemStorage.updateMeme: found is FALSE when it returns undefined.
UpdateMeme(st, id, updates) ==
    IF id \notin DOMAIN st.memes
    THEN [storage |-> st, found |-> FALSE]
    ELSE [storage |-> [st EXCEPT !.memes = MapSet(@, id,
                                    [st.memes[id] EXCEPT !.title = updates.title])],
          found |-> TRUE]

\* deleteMeme as it would be if it answered true for every id.
DeleteMemeAlwaysTrue(st, id) ==
    [storage |-> [st EXCEPT !.memes = MapDelete(@, id)], found |-> TRUE]

\* MemStorage.deleteMeme: found is what Map.delete returns.
DeleteMeme(st, id) ==
    [storage |-> [st EXCEPT !.memes = MapDelete(@, id)],
     found |-> id \in DOMAIN st.memes]

\* ------------------------------------------------------------- uploads

\* multer's limits.fileSize and the limit of Sidebar.handleFileUpload.
MaxFileSize == 10 * 1024 * 1024

\* The files that are uploaded: the declared mime type as << type, subtype >>
\* and the size in bytes.
Files ==
    [mime : {<< "image", "png" >>, << "text", "plain" >>, << "application", "pdf" >>},
     size : {1024, MaxFileSize, MaxFileSize + 1}]

NoUpload ==
    [stage |-> "idle", via |-> "none",
     file |-> [mime |-> << "none", "none" >>, size |-> 0], status |-> 0]

\* A file filter that lets every file through.
fileFilterAny(file) == TRUE

\* multer's fileFilter: file.mimetype.startsWith('image/').
fileFilter(file) == file.mime[1] = "image"

\* upload.single('file'): TRUE when the file reaches the handler; a file
\* that the filter refuses or that is larger than limits.fileSize ends in
\* next(err).
Multer(file) == fileFilter(file) /\ file.size <= MaxFileSize

\* MemStorage.createUpload on the records ups.
CreateUpload(ups, insertUpload) ==
    Append(ups, [id |-> Len(ups) + 1, mimeType |-> insertUpload.mime,
                 size |-> insertUpload.size])

\* POST /api/upload: the upload records after it and the status answered;
\* an error passed to next() is answered with 500.
UploadRoute(ups, file) ==
    IF ~Multer(file) THEN [uploads |-> ups, status |-> 500]
    ELSE [uploads |-> CreateUpload(ups, file), status |-> 200]

NoRequest ==
    [via |-> "none", canvasData |-> DataUrl(<< 0, 0 >>), format |-> "png",
     quality |-> "medium", optimizeFor |-> "social", width |-> 0, height |-> 0]

NoResponse == [status |-> 0, contentType |-> "none", image |-> NoImage]

Pending == request.via # "none" /\ response = NoResponse

Call(via, canvasData, format, quality, optimizeFor, target) ==
    [via |-> via, canvasData |-> canvasData, format |-> format,
     quality |-> quality, optimizeFor |-> optimizeFor,
     width |-> target[1], height |-> target[2]]


\* The size the component's effect gives the canvas element.
PlainDefaultSize == << 500, 500 >>

Init ==
    /\ objects \in {<< >>, Placeholders}
    /\ active = {}
    /\ history = << >>
    /\ historyStep = -1
    /\ now = 0
    /\ ui = [canUndo |-> FALSE, canRedo |-> FALSE]
    /\ clearFires \in BOOLEAN
    /\ lastOp = "init"
    /\ lastResult = TRUE
    /\ lastFired = 0
    /\ discarded = {}
    /\ g0 = objects
    /\ run = "mut"
    /\ committed = << >>
    /\ runLen = 0
    /\ request = NoRequest
    /\ response = NoResponse
    /\ client = "idle"
    /\ canvasWidth = 500
    /\ canvasHeight = 500
    /\ backgroundColor = DefaultBackground
    /\ load = NoLoad
    /\ steps = 0
    /\ elements = << >>
    /\ plainSize = PlainDefaultSize
    /\ backgroundImage = NoBackgroundImage
    /\ memes = << >>
    /\ currentMemeId = 1
    /\ lastStore = NoStoreCall
    /\ uploads = << >>
    /\ upload = NoUpload
    /\ drag = NoDrag
    /\ snap = NoSnap
    /\ gen = NoGeneration
    /\ templates = {}
    /\ stickers = {}
    /\ seed = [p \in SeedRuns |-> NotSeeding]
    /\ seen = << {}, {} >>

DoCreateMemeText(limit) ==
    \E text \in Texts :
        Edit(limit, "mutation", TRUE, CreateMemeText(World, text))

DoDuplicateActiveObject(limit) ==
    LET r == DuplicateActiveObject(World)
    IN  /\ \A p \in active : objects[p].left + 10 \in Lefts
        /\ Edit(limit, "mutation", r.result, r.world)

DoDeleteActiveObject(limit) ==
    LET r == DeleteActiveObject(World)
    IN  Edit(limit, "mutation", r.result, r.world)

\* The `object` argument of the layer and lock helpers: left out, or an
\* object of the canvas.
Targets == {0} \cup 1..Len(objects)

DoBringToFront(limit) ==
    \E t \in Targets :
        Edit(limit, "mutation", TargetOf(World, t) # {}, BringToFront(World, t))

DoSendToBack(limit) ==
    \E t \in Targets :
        Edit(limit, "mutation", TargetOf(World, t) # {}, SendToBack(World, t))

DoBringForward(limit) ==
    \E t \in Targets :
        Edit(limit, "mutation", TargetOf(World, t) # {}, BringForward(World, t))

DoSendBackward(limit) ==
    \E t \in Targets :
        Edit(limit, "mutation", TargetOf(World, t) # {}, SendBackward(World, t))

DoLockObject(limit) ==
    \E t \in Targets :
        Edit(limit, "other", TargetOf(World, t) # {}, LockObject(World, t))

DoUnlockObject(limit) ==
    \E t \in Targets :
        Edit(limit, "other", TargetOf(World, t) # {}, UnlockObject(World, t))

DoToggleLayerVisibility(limit) ==
    \E i \in 1..Len(objects) :
        Edit(limit, "other", TRUE, ToggleLayerVisibility(World, i))

DoUpdateObjectProperty(limit) ==
    \E left \in Lefts :
        LET r == UpdateObjectProperty(World, left)
        IN  Edit(limit, "mutation", r.result, r.world)

DoObjectModified(limit) ==
    \E i \in 1..Len(objects), left \in Lefts :
        /\ objects[i].selectable /\ ~objects[i].locked /\ objects[i].visible
        /\ left # objects[i].left
        /\ Edit(limit, "mutation", TRUE, ObjectModified(World, i, left))

\* useMemeEditor.clearCanvas / CanvasManager.clearCanvas on the fabric
\* canvas: canvas.clear(), then the default background colour.
DoClearCanvas(limit) ==
    /\ Commit(limit, "clearCanvas", TRUE, ClearCanvas(World, clearFires))
    /\ backgroundColor' = DefaultBackground
    /\ UNCHANGED << canvasWidth, canvasHeight, load, steps, otherVars >>

DoSelectAllObjects(limit) ==
    Edit(limit, "other", TRUE, SelectAllObjects(World))

DoDeselectAll(limit) ==
    Edit(limit, "other", TRUE, DeselectAll(World))

DoSelectLayer(limit) ==
    \E i \in 1..Len(objects) :
        Edit(limit, "other", TRUE, SelectLayer(World, i))

DoUndo ==
    LET r == Undo(World, clearFires)
        goesOn == /\ run \in {"mut", "undo"}
                  /\ Len(committed) >= 1
                  /\ run = "mut" \/ runLen < Len(committed)
    IN  /\ r.world.now <= MaxCommits
        /\ Finish("undo", r.result, r.world)
        /\ UNCHANGED << sceneVars, otherVars >>
        /\ run' = IF goesOn THEN "undo" ELSE "off"
        /\ runLen' = IF ~goesOn THEN 0 ELSE IF run = "mut" THEN 1 ELSE runLen + 1
        /\ committed' = IF goesOn THEN committed ELSE << >>

DoRedo ==
    LET r == Redo(World, clearFires)
        goesOn == \/ run = "undo" /\ runLen = Len(committed)
                  \/ run = "redo" /\ runLen < Len(committed)
    IN  /\ r.world.now <= MaxCommits
        /\ Finish("redo", r.result, r.world)
        /\ UNCHANGED << sceneVars, otherVars >>
        /\ run' = IF goesOn THEN "redo" ELSE "off"
        /\ runLen' = IF ~goesOn THEN 0 ELSE IF run = "undo" THEN 1 ELSE runLen + 1
        /\ committed' = IF goesOn THEN committed ELSE << >>

\* The history under the operations that commit (and the selection they
\* act on), with undo and redo.
Next ==
    \/ DoCreateMemeText(MaxEdits)
    \/ DoDuplicateActiveObject(MaxEdits)
    \/ DoDeleteActiveObject(MaxEdits)
    \/ DoObjectModified(MaxEdits)
    \/ DoClearCanvas(MaxEdits)
    \/ DoSelectAllObjects(MaxEdits)
    \/ DoDeselectAll(MaxEdits)
    \/ DoSelectLayer(MaxEdits)
    \/ DoUndo
    \/ DoRedo

Spec == Init /\ [][Next]_vars

\* Every operation of the editor on the canvas, over shorter behaviours.
NextEditor ==
    \/ DoCreateMemeText(MaxEditorEdits)
    \/ DoDuplicateActiveObject(MaxEditorEdits)
    \/ DoDeleteActiveObject(MaxEditorEdits)
    \/ DoBringToFront(MaxEditorEdits)
    \/ DoSendToBack(MaxEditorEdits)
    \/ DoBringForward(MaxEditorEdits)
    \/ DoSendBackward(MaxEditorEdits)
    \/ DoLockObject(MaxEditorEdits)
    \/ DoUnlockObject(MaxEditorEdits)
    \/ DoToggleLayerVisibility(MaxEditorEdits)
    \/ DoUpdateObjectProperty(MaxEditorEdits)
    \/ DoObjectModified(MaxEditorEdits)
    \/ DoClearCanvas(MaxEditorEdits)
    \/ DoSelectAllObjects(MaxEditorEdits)
    \/ DoDeselectAll(MaxEditorEdits)
    \/ DoSelectLayer(MaxEditorEdits)
    \/ DoUndo
    \/ DoRedo

SpecEditor == Init /\ [][NextEditor]_vars

\* useMemeEditor.exportMeme(options): the canvas' data URL with the
\* defaults png / medium / social, overridden by the options, is posted.
ExportMeme ==
    /\ ~Pending
    /\ client # "waiting"
    /\ client' = "waiting"
    /\ \E size \in SceneSizes, format \in Formats, quality \in Qualities,
          optimizeFor \in Policies, target \in TargetSizes :
          request' = Call("editor", DataUrl(size), format, quality,
                          optimizeFor, target)
    /\ response' = NoResponse
    /\ UNCHANGED << historyVars, plainVars, otherVars, sceneVars >>

\* Any other client posting a body to /api/export-meme.
PostExportMeme ==
    /\ ~Pending
    /\ client # "waiting"
    /\ \E size \in SceneSizes, format \in Formats, quality \in Qualities,
          optimizeFor \in Policies, target \in TargetSizes :
          \E canvasData \in {DataUrl(size), JsonObject(size)} :
              request' = Call("http", canvasData, format, quality,
                              optimizeFor, target)
    /\ response' = NoResponse
    /\ UNCHANGED << historyVars, plainVars, otherVars, sceneVars, client >>

\* The server handles the posted body.
HandleExportMeme ==
    /\ Pending
    /\ request.via \in {"editor", "http"}
    /\ response' = ExportMemeRoute(request)
    /\ UNCHANGED << historyVars, plainVars, otherVars, sceneVars, request, client >>

\* A direct call of processCanvasExport with a data URL.
CallProcessCanvasExport ==
    /\ ~Pending
    /\ client # "waiting"
    /\ \E size \in SceneSizes, format \in Formats, quality \in Qualities,
          optimizeFor \in Policies, target \in TargetSizes :
          LET call == Call("direct", DataUrl(size), format, quality,
                           optimizeFor, target)
              r == ProcessCanvasExport(call.canvasData, call)
          IN  /\ request' = call
              /\ response' = [status |-> IF r.ok THEN 200 ELSE 500,
                              contentType |-> "none", image |-> r.image]
    /\ UNCHANGED << historyVars, plainVars, otherVars, sceneVars, client >>

\* exportMutation once the response is there: mutationFn goes on to
\* response.blob() and the download when apiRequest returned, onError runs
\* when it threw.
SettleExport ==
    /\ client = "waiting"
    /\ response # NoResponse
    /\ client' = IF apiRequest(response) THEN "downloaded" ELSE "failed"
    /\ UNCHANGED << historyVars, plainVars, otherVars, sceneVars, request, response >>

\* A scene operation that fires no object event, run while fewer than
\* MaxSceneSteps of them were.
SceneStep(op, sc) ==
    /\ steps < MaxSceneSteps
    /\ steps' = steps + 1
    /\ canvasWidth' = sc.width
    /\ canvasHeight' = sc.height
    /\ backgroundColor' = sc.backgroundColor
    /\ objects' = sc.objects
    /\ lastOp' = op
    /\ lastResult' = TRUE
    /\ lastFired' = 0
    /\ run' = IF ToJSON(sc.objects) = ToJSON(objects) THEN run ELSE "off"
    /\ committed' = IF run' = "off" THEN << >> ELSE committed
    /\ runLen' = IF run' = "off" THEN 0 ELSE runLen
    /\ UNCHANGED << active, history, historyStep, now, ui, clearFires,
                    discarded, g0, load, exportVars, plainVars, otherVars >>

\* The platforms that are chosen in the properties panel.
Platforms == {"instagram", "facebook", "story"}

DoSetCanvasSize ==
    \E size \in {<< 500, 500 >>, << 800, 600 >>} :
        SceneStep("resize", SetCanvasSize(Scene, size[1], size[2]))

DoHandleCanvasSizeChange ==
    \E size \in DOMAIN CanvasSizes :
        SceneStep("resize", HandleCanvasSizeChange(Scene, size))

DoHandlePlatformChange ==
    \E platform \in Platforms :
        SceneStep("resize", HandlePlatformChange(Scene, platform))

DoExportAsDataURL == SceneStep("export", ExportAsDataURL(Scene))

DoExportWithBackground ==
    \E color \in {"#ffffff"} :
        SceneStep("export", ExportWithBackground(Scene, color))

DoExportArea == SceneStep("export", ExportArea(Scene))

DoHandleExportForPlatform ==
    \E platform \in Platforms :
        SceneStep("export", HandleExportForPlatform(Scene, platform))

DoOptimizeCanvasForExport ==
    \E target \in {<< 1080, 1080 >>} :
        SceneStep("export", OptimizeCanvasForExport(Scene, target[1], target[2]))

\* MemeCanvas.addText on the fabric canvas.
DoAddText ==
    \E text \in Texts :
        Edit(MaxEditorEdits, "addText", TRUE, AddText(World, text))

\* The values typed into the width / height fields of the properties
\* panel: parseInt(value) || 0 of a number input without a minimum.
SizeInputs == {-100, 0, 100}

DoUpdateObjectSize ==
    \E property \in {"width", "height"}, value \in SizeInputs :
        LET r == UpdateObjectSize(World, property, value)
        IN  /\ r.result
            /\ SceneStep("updateObjectProperty",
                         [Scene EXCEPT !.objects = r.world.objects])

\* The opacity slider of the properties panel: 0..100.
OpacityInputs == {0, 50, 100}

DoUpdateObjectOpacity ==
    \E value \in OpacityInputs :
        LET r == UpdateObjectOpacity(World, value)
        IN  /\ r.result
            /\ SceneStep("updateObjectProperty",
                         [Scene EXCEPT !.objects = r.world.objects])

\* The sizes of the images that are loaded.
ImageSizes == {<< 500, 500 >>, << 1000, 500 >>}

\* A call that loads an image: its synchronous part gives the canvas w2 and
\* the load is in progress.
StartLoad(via, size, w2) ==
    /\ load.stage \in {"idle", "done"}
    /\ steps < MaxSceneSteps
    /\ steps' = steps + 1
    /\ Commit(MaxEditorEdits, "loadImage", TRUE, w2)
    /\ load' = [via |-> via, stage |-> "loading", width |-> size[1],
                height |-> size[2],
                promise |-> IF via = "CanvasManager" THEN "pending" ELSE "none",
                before |-> objects, now0 |-> now, now1 |-> w2.now,
                steps0 |-> steps + 1]
    /\ UNCHANGED << canvasWidth, canvasHeight, backgroundColor >>

\* MemeCanvas.addImage on the fabric canvas, up to fabric.Image.fromURL.
DoAddImage ==
    \E size \in ImageSizes :
        /\ StartLoad("MemeCanvas", size, AddImageStart(World))
        /\ UNCHANGED otherVars

\* CanvasManager.addImage / addMemeTemplate, up to fabric.Image.fromURL.
DoManagerAddImage ==
    \E size \in ImageSizes :
        /\ StartLoad("CanvasManager", size, World)
        /\ UNCHANGED otherVars

DoAddMemeTemplate ==
    \E size \in ImageSizes :
        /\ StartLoad("CanvasManager.template", size, World)
        /\ UNCHANGED otherVars

\* The browser finishes the load, with the image or with an error.  Nothing
\* in the code makes this happen: there is no timeout on a load.
ImageSettles ==
    /\ load.stage = "loading"
    /\ \E outcome \in {"loaded", "error"} : load' = [load EXCEPT !.stage = outcome]
    /\ UNCHANGED << historyVars, exportVars, plainVars, otherVars, canvasWidth,
                    canvasHeight, backgroundColor, steps >>

\* The callback of fabric.Image.fromURL, run with the image or with null.
RunLoadCallback ==
    /\ load.stage \in {"loaded", "error"}
    /\ load.via # "plain"
    /\ LET ok == load.stage = "loaded"
           w2 == IF ~ok THEN World
                 ELSE IF load.via = "MemeCanvas"
                 THEN AddImageLoaded(World, Scene, load.width, load.height)
                 ELSE IF load.via = "CanvasManager"
                 THEN ManagerAddImageLoaded(World, load.width, load.height)
                 ELSE AddMemeTemplateLoaded(World, Scene, load.width, load.height)
       IN  /\ Track(IF load.via = "CanvasManager.template"
                    THEN "addMemeTemplate" ELSE "addImage", ok, w2)
           /\ load' = [load EXCEPT
                           !.stage = "done",
                           !.promise = IF load.via = "MemeCanvas" THEN "none"
                                       ELSE IF ok THEN "resolved" ELSE "rejected"]
    /\ UNCHANGED << canvasWidth, canvasHeight, backgroundColor, steps,
                    otherVars >>

\* ------------------------------------------------- the plain 2D MemeCanvas

\* A step of the plain canvas component: its two pieces of state and the
\* size of its canvas element after it.
PlainStep(op, result, els, bg, size) ==
    /\ elements' = els
    /\ backgroundImage' = bg
    /\ plainSize' = size
    /\ lastOp' = op
    /\ lastResult' = result
    /\ lastFired' = 0
    /\ UNCHANGED << objects, active, history, historyStep, now, ui, clearFires,
                    discarded, g0, run, committed, runLen, exportVars,
                    otherVars, canvasWidth, canvasHeight, backgroundColor >>

\* MemeCanvas.addText (2D canvas): a text element is appended, 80 px below
\* the texts there are; the effect on [elements, backgroundImage] runs
\* after the state changed and sets the canvas element to its default size.
PlainAddText ==
    \E text \in Texts :
        /\ steps < MaxSceneSteps
        /\ steps' = steps + 1
        /\ PlainStep("plainAddText", TRUE,
                     Append(elements, [content |-> text, x |-> 250,
                                       y |-> 100 + Len(elements) * 80]),
                     backgroundImage, PlainDefaultSize)
        /\ UNCHANGED load

\* MemeCanvas.addImage (2D canvas), up to img.src = imageUrl.
PlainAddImage ==
    \E size \in ImageSizes :
        /\ load.stage \in {"idle", "done"}
        /\ steps < MaxSceneSteps
        /\ steps' = steps + 1
        /\ PlainStep("loadImage", TRUE, elements, backgroundImage, plainSize)
        /\ load' = [NoLoad EXCEPT !.via = "plain", !.stage = "loading",
                                  !.width = size[1], !.height = size[2],
                                  !.now0 = now, !.now1 = now,
                                  !.steps0 = steps + 1]

\* img.onload / img.onerror of the 2D canvas: the image becomes the
\* background image, or a toast is shown.
PlainRunLoadCallback ==
    /\ load.stage \in {"loaded", "error"}
    /\ load.via = "plain"
    /\ PlainStep("plainAddImage", load.stage = "loaded", elements,
                 IF load.stage = "loaded" THEN << load.width, load.height >>
                 ELSE backgroundImage,
                 IF load.stage = "loaded" THEN PlainDefaultSize ELSE plainSize)
    /\ load' = [load EXCEPT !.stage = "done"]
    /\ UNCHANGED steps

\* useMemeEditor.clearCanvas with the 2D component: getCanvas() is the
\* HTMLCanvasElement, which has no clear(); the call throws before anything
\* is reset, and the component's state is out of its reach.
PlainClearCanvas ==
    /\ steps < MaxSceneSteps
    /\ steps' = steps + 1
    /\ PlainStep("plainClearCanvas", FALSE, elements, backgroundImage, plainSize)
    /\ UNCHANGED load

\* The sizes given to setDimensions of the 2D canvas.
PlainSizes == {<< 800, 600 >>, << 1080, 1080 >>}

\* MemeCanvas.setDimensions (2D canvas): the canvas element takes the size.
PlainSetDimensions ==
    \E dimensions \in PlainSizes :
        /\ steps < MaxSceneSteps
        /\ steps' = steps + 1
        /\ PlainStep("plainSetDimensions", TRUE, elements, backgroundImage,
                     dimensions)
        /\ UNCHANGED load

\* The 2D canvas component alone.
NextPlainSize ==
    \/ PlainSetDimensions
    \/ PlainAddText
    \/ PlainAddImage
    \/ ImageSettles
    \/ PlainRunLoadCallback

SpecPlainSize == Init /\ [][NextPlainSize]_vars

\* ------------------------------------------------------------ seeding

SeedFrame ==
    UNCHANGED << historyVars, exportVars, sceneVars, plainVars, storeVars,
                 uploadVars, dragVars, gen >>

\* seedDatabase up to its first await and the test on the answer: the
\* invocation returns when the templates table has a row.
SeedSelect ==
    \E p \in SeedRuns :
        /\ seed[p].pc = "idle"
        /\ seed' = [seed EXCEPT ![p].pc = IF templates # {} THEN "done"
                                          ELSE "insertTemplates"]
        /\ UNCHANGED << templates, stickers, seen >>
        /\ SeedFrame

\* await db.insert(templates).values([...]); an error is logged and thrown
\* again by the catch.
SeedInsertTemplates ==
    \E p \in SeedRuns :
        /\ seed[p].pc = "insertTemplates"
        /\ LET r == Insert(templates, SeedTemplates)
           IN  /\ templates' = r.table
               /\ seed' = [seed EXCEPT ![p] =
                               IF r.error = "none"
                               THEN [pc |-> "insertStickers", error |-> "none"]
                               ELSE [pc |-> "failed", error |-> r.error]]
        /\ UNCHANGED << stickers, seen >>
        /\ SeedFrame

\* await db.insert(stickers).values([...]).
SeedInsertStickers ==
    \E p \in SeedRuns :
        /\ seed[p].pc = "insertStickers"
        /\ LET r == Insert(stickers, SeedStickers)
           IN  /\ stickers' = r.table
               /\ seed' = [seed EXCEPT ![p] =
                               IF r.error = "none"
                               THEN [pc |-> "done", error |-> "none"]
                               ELSE [pc |-> "failed", error |-> r.error]]
        /\ UNCHANGED << templates, seen >>
        /\ SeedFrame

\* GET /api/templates and GET /api/stickers: the rows of the two tables.
SeedRead ==
    /\ seen' = << templates, stickers >>
    /\ seen' # seen
    /\ UNCHANGED << templates, stickers, seed >>
    /\ SeedFrame

NextSeed ==
    \/ SeedSelect
    \/ SeedInsertTemplates
    \/ SeedInsertStickers
    \/ SeedRead

SpecSeed == Init /\ [][NextSeed]_vars

\* ------------------------------------------------------- AI generation

\* The two captions and the image of an answer of /api/generate-meme.
SuggestedTop == "suggestedTop"

SuggestedBottom == "suggestedBottom"

GeneratedSize == << 1024, 1024 >>

\* The adds the user makes after a generation.
MaxUserAdds == 2

\* A step of the generation flow or of the user after it, on the fabric
\* canvas.
GenStep(op, result, w2) ==
    /\ Track(op, result, w2)
    /\ UNCHANGED << canvasWidth, canvasHeight, backgroundColor, steps,
                    storeVars, uploadVars, dragVars, seedVars >>

\* The same on the plain 2D canvas.
GenPlainStep(op, result, els, bg, size) ==
    /\ elements' = els
    /\ backgroundImage' = bg
    /\ plainSize' = size
    /\ lastOp' = op
    /\ lastResult' = result
    /\ lastFired' = 0
    /\ UNCHANGED << objects, active, history, historyStep, now, ui, clearFires,
                    discarded, g0, run, committed, runLen, exportVars,
                    canvasWidth, canvasHeight, backgroundColor, steps,
                    storeVars, uploadVars, dragVars, seedVars >>

PlainText(text) ==
    [content |-> text, x |-> 250, y |-> 100 + Len(elements) * 80]

\* generateMemeMutation.onSuccess: canvasRef.current.addImage(data.imageUrl).
GenAddImage ==
    \E via \in {"MemeCanvas", "plain"} :
        /\ gen.stage = "none"
        /\ gen' = [gen EXCEPT !.via = via, !.stage = "image", !.load = "loading"]
        /\ IF via = "MemeCanvas"
           THEN GenStep("loadImage", TRUE, AddImageStart(World))
           ELSE GenPlainStep("loadImage", TRUE, elements, backgroundImage,
                             plainSize)
        /\ UNCHANGED load

\* onSuccess: addText(suggestedText.top), then addText(suggestedText.bottom).
GenAddText ==
    /\ gen.stage \in {"image", "top"}
    /\ LET text == IF gen.stage = "image" THEN SuggestedTop ELSE SuggestedBottom
       IN  IF gen.via = "MemeCanvas"
           THEN GenStep("addText", TRUE, AddText(World, text))
           ELSE GenPlainStep("plainAddText", TRUE,
                             Append(elements, PlainText(text)),
                             backgroundImage, PlainDefaultSize)
    /\ gen' = [gen EXCEPT !.stage = IF gen.stage = "image" THEN "top" ELSE "done"]
    /\ UNCHANGED load

\* The browser finishes the load of the generated image.
GenImageSettles ==
    /\ gen.load = "loading"
    /\ \E outcome \in {"loaded", "error"} : gen' = [gen EXCEPT !.load = outcome]
    /\ UNCHANGED << historyVars, exportVars, sceneVars, plainVars, storeVars,
                    uploadVars, dragVars, seedVars >>

\* The callback of the generated image's load: fabric.Image.fromURL's
\* callback, or img.onload / img.onerror of the 2D canvas.
GenLoadCallback ==
    /\ gen.load \in {"loaded", "error"}
    /\ LET ok == gen.load = "loaded"
       IN  /\ IF gen.via = "MemeCanvas"
              THEN GenStep("addImage", ok,
                           IF ok THEN AddImageLoaded(World, Scene,
                                                     GeneratedSize[1],
                                                     GeneratedSize[2])
                           ELSE World)
              ELSE GenPlainStep("plainAddImage", ok, elements,
                                IF ok THEN GeneratedSize ELSE backgroundImage,
                                IF ok THEN PlainDefaultSize ELSE plainSize)
           /\ gen' = [gen EXCEPT !.load = IF ok THEN "done" ELSE "failed",
                                 !.late = gen.stage = "done" /\ gen.adds > 0]
    /\ UNCHANGED load

\* The user adds a text after the generation.
GenUserAddText ==
    \E text \in Texts :
        /\ gen.stage = "done"
        /\ gen.adds < MaxUserAdds
        /\ gen' = [gen EXCEPT !.adds = @ + 1]
        /\ IF gen.via = "MemeCanvas"
           THEN GenStep("addText", TRUE, AddText(World, text))
           ELSE GenPlainStep("plainAddText", TRUE,
                             Append(elements, PlainText(text)),
                             backgroundImage, PlainDefaultSize)
        /\ UNCHANGED load

\* The user adds an image after the generation, up to the start of its
\* load; the load settles and its callback runs as for any other image.
GenUserAddImage ==
    \E size \in ImageSizes :
        /\ gen.stage = "done"
        /\ gen.adds < MaxUserAdds
        /\ load.stage \in {"idle", "done"}
        /\ gen' = [gen EXCEPT !.adds = @ + 1]
        /\ IF gen.via = "MemeCanvas"
           THEN GenStep("loadImage", TRUE, AddImageStart(World))
           ELSE GenPlainStep("loadImage", TRUE, elements, backgroundImage,
                             plainSize)
        /\ load' = [NoLoad EXCEPT !.via = gen.via, !.stage = "loading",
                                  !.width = size[1], !.height = size[2],
                                  !.before = objects, !.now0 = now,
                                  !.now1 = now', !.steps0 = steps]

NextGenerate ==
    \/ GenAddImage
    \/ GenAddText
    \/ GenImageSettles
    \/ GenLoadCallback
    \/ GenUserAddText
    \/ GenUserAddImage
    \/ ImageSettles
    \/ RunLoadCallback
    \/ PlainRunLoadCallback

SpecGenerate == Init /\ [][NextGenerate]_vars

\* The scene: adding texts, resizing, exporting, the properties panel.
NextScene ==
    \/ DoAddText
    \/ DoSelectLayer(MaxEditorEdits)
    \/ DoClearCanvas(MaxEditorEdits)
    \/ DoSetCanvasSize
    \/ DoHandleCanvasSizeChange
    \/ DoHandlePlatformChange
    \/ DoExportAsDataURL
    \/ DoExportWithBackground
    \/ DoExportArea
    \/ DoHandleExportForPlatform
    \/ DoOptimizeCanvasForExport
    \/ DoUpdateObjectSize
    \/ DoUpdateObjectOpacity

SpecScene == Init /\ [][NextScene]_vars

\* The image loads alone.  The event loop runs a callback that is due; that
\* the browser ever settles a load is not assumed.
NextLoad ==
    \/ DoAddText
    \/ DoAddImage
    \/ DoManagerAddImage
    \/ DoAddMemeTemplate
    \/ ImageSettles
    \/ RunLoadCallback

SpecLoad == Init /\ [][NextLoad]_vars /\ WF_vars(RunLoadCallback)

\* The add operations of MemeCanvas on a canvas whose objects the user
\* locks and unlocks.
NextLock ==
    \/ DoAddText
    \/ DoLockObject(MaxEditorEdits)
    \/ DoUnlockObject(MaxEditorEdits)
    \/ DoAddImage
    \/ ImageSettles
    \/ RunLoadCallback

SpecLock == Init /\ [][NextLock]_vars

\* The two canvas components under the editor's add and clear operations.
NextPlain ==
    \/ DoAddText
    \/ DoClearCanvas(MaxEditorEdits)
    \/ PlainAddText
    \/ PlainAddImage
    \/ ImageSettles
    \/ PlainRunLoadCallback
    \/ PlainClearCanvas

SpecPlain == Init /\ [][NextPlain]_vars

\* ------------------------------------------------- the memes API routes

\* A storage call made by a route: the storage after it and the call's
\* record with the status the route answers.
StoreStep(op, id, r, status) ==
    /\ memes' = r.storage.memes
    /\ currentMemeId' = r.storage.currentMemeId
    /\ lastStore' = [op |-> op, id |-> id, found |-> r.found, status |-> status]
    /\ UNCHANGED << historyVars, exportVars, sceneVars, plainVars, uploadVars,
                    dragVars, gen, seedVars >>

\* The ids the routes are called with: those handed out so far and one more.
MemeIds == 1..MaxMemes

\* POST /api/memes.
PostMeme ==
    \E title \in Titles :
        /\ currentMemeId <= MaxMemes
        /\ StoreStep("createMeme", currentMemeId,
                     CreateMeme(Storage, [title |-> title]), 201)

\* GET /api/memes/:id.
GetMemeRoute ==
    \E id \in MemeIds :
        LET r == GetMeme(Storage, id)
        IN  StoreStep("getMeme", id, r, IF r.found THEN 200 ELSE 404)

\* PUT /api/memes/:id.
PutMeme ==
    \E id \in MemeIds, title \in Titles :
        LET r == UpdateMeme(Storage, id, [title |-> title])
        IN  StoreStep("updateMeme", id, r, IF r.found THEN 200 ELSE 404)

\* DELETE /api/memes/:id.
DeleteMemeRoute ==
    \E id \in MemeIds :
        LET r == DeleteMeme(Storage, id)
        IN  StoreStep("deleteMeme", id, r, IF r.found THEN 204 ELSE 404)

NextStore ==
    \/ PostMeme
    \/ GetMemeRoute
    \/ PutMeme
    \/ DeleteMemeRoute

SpecStore == Init /\ [][NextStore]_vars

\* ------------------------------------------------------ the upload flow

\* Sidebar.handleFileUpload: a file over the limit is refused with a toast,
\* any other file is posted.
HandleFileUpload ==
    \E file \in Files :
        /\ upload.stage \in {"idle", "done", "refused"}
        /\ Len(uploads) < MaxUploads
        /\ upload' = [stage |-> IF file.size > MaxFileSize THEN "refused" ELSE "sent",
                      via |-> "sidebar", file |-> file, status |-> 0]
        /\ UNCHANGED << historyVars, exportVars, sceneVars, plainVars,
                        storeVars, uploads, dragVars, gen, seedVars >>

\* Any other client posts a file to /api/upload.
PostUpload ==
    \E file \in Files :
        /\ upload.stage \in {"idle", "done", "refused"}
        /\ Len(uploads) < MaxUploads
        /\ upload' = [stage |-> "sent", via |-> "direct", file |-> file,
                      status |-> 0]
        /\ UNCHANGED << historyVars, exportVars, sceneVars, plainVars,
                        storeVars, uploads, dragVars, gen, seedVars >>

\* The server handles the request.
HandleUpload ==
    /\ upload.stage = "sent"
    /\ LET r == UploadRoute(uploads, upload.file)
       IN  /\ uploads' = r.uploads
           /\ upload' = [upload EXCEPT
                             !.stage = IF upload.via = "direct" THEN "done"
                                       ELSE "answered",
                             !.status = r.status]
    /\ UNCHANGED << historyVars, exportVars, sceneVars, plainVars, storeVars,
                    dragVars, gen, seedVars >>

\* Sidebar.uploadMutation: apiRequest returns and onSuccess adds the image
\* to the canvas, or it throws and onError shows a toast.
SettleUpload ==
    /\ upload.stage = "answered"
    /\ upload' = [upload EXCEPT !.stage = "done"]
    /\ IF apiRequest(upload)
       THEN \E size \in ImageSizes :
                StartLoad("MemeCanvas", size, AddImageStart(World))
       ELSE UNCHANGED << historyVars, sceneVars >>
    /\ UNCHANGED << exportVars, plainVars, storeVars, uploads, dragVars, gen, seedVars >>

NextUpload ==
    \/ HandleFileUpload
    \/ PostUpload
    \/ HandleUpload
    \/ SettleUpload
    \/ ImageSettles
    \/ RunLoadCallback

SpecUpload == Init /\ [][NextUpload]_vars

\* ------------------------------------------------------------- dragging

\* enableSnapping's default snapDistance.
DefaultSnapDistance == 10

\* Where the pointer takes a dragged object.
DragLefts == {250, 255, 260}

\* One mouse move of a drag of a selectable object.
DoObjectMoving ==
    \E i \in 1..Len(objects), left \in DragLefts :
        /\ drag.target \in {0, i}
        /\ steps < MaxSceneSteps
        /\ objects[i].selectable /\ ~objects[i].locked /\ objects[i].visible
        /\ left # objects[i].left
        /\ LET w2 == ObjectMoving(World, i, left, DefaultSnapDistance)
           IN  /\ Track("moving", TRUE, w2)
               /\ drag' = [target |-> i, moved |-> TRUE,
                           snapped |-> drag.snapped \/ w2.objects[i].left # left]
        /\ steps' = steps + 1
        /\ UNCHANGED << canvasWidth, canvasHeight, backgroundColor, load,
                        storeVars, uploadVars, snap, gen, seedVars >>

\* The mouse button is released: fabric fires object:modified for the
\* object that was moved.
DoMouseUp ==
    /\ drag.target # 0
    /\ Track("modified", TRUE, Fire(World))
    /\ drag' = [drag EXCEPT !.target = 0, !.moved = FALSE]
    /\ UNCHANGED << sceneVars, storeVars, uploadVars, snap, gen, seedVars >>

NextDrag ==
    \/ DoCreateMemeText(MaxEditorEdits)
    \/ DoObjectMoving
    \/ DoMouseUp
    \/ DoUndo

SpecDrag == Init /\ [][NextDrag]_vars

\* The rectangles the handler is run on (the dragged object's position is
\* its rectangle's corner) and the snap distance.
SnapDistance == 3

DraggedRects == [left : 0..3, top : {0, 1}, width : {4, 6}, height : {4}]

OtherRects == [left : {0, 2, 8}, top : {0, 1}, width : {4, 6}, height : {4}]

\* The handler runs for a dragged rectangle among one or two others.
DoSnapping ==
    \E obj \in DraggedRects, o1 \in OtherRects, o2 \in OtherRects, n \in 1..2 :
        LET others == IF n = 1 THEN << o1 >> ELSE << o1, o2 >>
        IN  /\ snap = NoSnap
            /\ snap' = [obj |-> obj, others |-> others,
                        after |-> Snapping([left |-> obj.left, top |-> obj.top],
                                           obj, others, SnapDistance)]
            /\ UNCHANGED << historyVars, exportVars, sceneVars, plainVars,
                            storeVars, uploadVars, drag, gen,
                            seedVars >>

NextSnap == DoSnapping

SpecSnap == Init /\ [][NextSnap]_vars

NextExport ==
    \/ ExportMeme
    \/ PostExportMeme
    \/ HandleExportMeme
    \/ SettleExport
    \/ CallProcessCanvasExport

SpecExport == Init /\ [][NextExport]_vars

\* ------------------------------------------------------------------ claims

\* C1. Undo/redo inverse: after N >= 1 committed mutations (object events) on
\* a fresh helper attached to canvas g0, N calls of undo() leave the canvas
\* as g0 was, and N calls of redo() after them leave it as it was after the
\* N-th mutation.  (Canvases are compared as serialised.)
C1_UndoRedoInverse ==
    /\ (run = "undo" /\ runLen = Len(committed))
          => ToJSON(objects) = ToJSON(g0)
    /\ (run = "redo" /\ runLen = Len(committed))
          => ToJSON(objects) = committed[Len(committed)]

\* C2. Branch discard: no entry that was after the cursor when a commit ran
\* is in the history afterwards, or ever again; and right after a mutation
\* that committed, the cursor is on the last entry, canRedo() is false and
\* redo() returns false.
C2_BranchDiscard ==
    /\ \A i \in 1..Len(history) : history[i].timestamp \notin discarded
    /\ (lastOp \in Mutations /\ lastFired >= 1)
          => /\ historyStep = Len(history) - 1
             /\ ~canRedo
             /\ ~Redo(World, clearFires).result

\* C2's case: entries were discarded and a mutation has just committed.
C2_Witness ==
    /\ discarded # {}
    /\ lastOp \in Mutations
    /\ lastFired >= 1

\* C3. History bound: after more than maxHistorySize commits the history
\* holds exactly the maxHistorySize most recent snapshots, in commit order,
\* with the cursor on the newest; undo() repeated from there stops at the
\* oldest retained snapshot (reached by the (maxHistorySize - 1)-th call,
\* after which undo() returns false and the canvas stays).
C3_HistoryBound ==
    /\ (run = "mut" /\ Len(committed) > maxHistorySize)
          => /\ Len(history) = maxHistorySize
             /\ historyStep = Len(history) - 1
             /\ \A i \in 1..maxHistorySize :
                    history[i].state = committed[Len(committed) - maxHistorySize + i]
    /\ (run = "undo" /\ Len(committed) > maxHistorySize
                     /\ runLen >= maxHistorySize - 1)
          => /\ ToJSON(objects) = committed[Len(committed) - maxHistorySize + 1]
             /\ (runLen >= maxHistorySize => ~lastResult)

\* C4. Exactly one commit per user-level mutation: every successful add,
\* remove, reorder, transform update, duplicate, delete-active and clear
\* fires exactly one saveState, also on a multi-object selection.
C4_OneCommitPerMutation ==
    (lastOp \in Mutations /\ lastResult) => lastFired = 1

\* C5. Unavailable is a no-op: undo() at cursor <= 0 and redo() at the last
\* entry return false and change neither the entries, the cursor nor the
\* canvas; otherwise they return true, move the cursor by exactly one and
\* leave the canvas as entries[cursor].
C5_UnavailableNoOp ==
    [][ /\ lastOp' = "undo" =>
            IF historyStep <= 0
            THEN ~lastResult' /\ UNCHANGED << history, historyStep, objects >>
            ELSE /\ lastResult'
                 /\ historyStep' = historyStep - 1
                 /\ ToJSON(objects') = history[historyStep].state
        /\ lastOp' = "redo" =>
            IF historyStep >= Len(history) - 1
            THEN ~lastResult' /\ UNCHANGED << history, historyStep, objects >>
            ELSE /\ lastResult'
                 /\ historyStep' = historyStep + 1
                 /\ ToJSON(objects') = history[historyStep + 2].state
      ]_vars

\* C6. The flags the editor hook hands to the toolbar follow the history
\* cursor: canUndo exactly when historyStep > 0, canRedo exactly when
\* historyStep < len(history) - 1.
C6_FlagsFollowCursor ==
    /\ ui.canUndo = canUndo
    /\ ui.canRedo = canRedo

\* C7. Serialization round trip: loading the snapshot taken of the canvas
\* gives back the same objects, in the same order, with the same
\* attributes, the selectable / lock flags and the visible flag included.
C7_RoundTrip ==
    LoadState(World, ToJSON(objects), clearFires).objects = objects

\* C8. An export request built by the editor (exportMeme: the canvas' data
\* URL string, format, quality and optimizeFor within their enums), once
\* POST /api/export-meme has answered it, passed validation and was
\* processed: the answer is status 200 with an image and an image
\* content-type, never a rejection or a failure.
C8_EditorExportSucceeds ==
    (request.via = "editor" /\ ~Pending)
        => /\ response.status = 200
           /\ response.contentType \in {"image/png", "image/jpeg", "image/gif"}
           /\ response.image # NoImage

\* C9. GIF is not distinguished from PNG: processCanvasExport encodes a gif
\* request with the encoder and the encoder parameters (quality and
\* compression level) of the same request with format png, and the endpoint
\* delivers a gif request's image with content-type image/png.
C9_GifAsPng ==
    (request.format = "gif" /\ request.via # "none" /\ ~Pending)
        => LET asPng == [request EXCEPT !.format = "png"]
           IN  /\ request.via = "direct" =>
                     response.image =
                         ProcessCanvasExport(asPng.canvasData, asPng).image
               /\ (request.via # "direct" /\ response.status = 200) =>
                     response.contentType = "image/png"

\* C10. Export dimension policy, for a data URL exported through the
\* endpoint or by a direct call of processCanvasExport: an image comes
\* back; with optimizeFor social and a target width and height it is
\* exactly that size; with social and no target size, and with print (no
\* resizing), it has the size of the scene the caller gave.
C10_DimensionPolicy ==
    (request.via # "none" /\ request.canvasData.kind = "string" /\ ~Pending)
        => LET targeted == /\ request.optimizeFor = "social"
                           /\ request.width # 0
                           /\ request.height # 0
           IN  /\ response.status = 200
               /\ response.image.width =
                     IF targeted THEN request.width
                     ELSE request.canvasData.width
               /\ response.image.height =
                     IF targeted THEN request.height
                     ELSE request.canvasData.height

C12_ExportLeavesScene ==
    [][lastOp' = "export" =>
          /\ canvasWidth' = canvasWidth
          /\ canvasHeight' = canvasHeight
          /\ backgroundColor' = backgroundColor
          /\ Len(objects') = Len(objects)
          /\ \A i \in 1..Len(objects) :
                /\ objects'[i].left = objects[i].left
                /\ objects'[i].scaleX = objects[i].scaleX
                /\ objects'[i].scaleY = objects[i].scaleY]_vars


\* C13: no operation waits for ever: an image load that was started
\* (addImage, addMemeTemplate) comes to an end, with the image added or
\* with a failure, also when the browser never reports the load or its error.
C13_LoadCompletes == (load.stage = "loading") ~> (load.stage = "done")


\* How many objects of the canvas objs equal o.
Count(objs, o) == Cardinality({k \in 1..Len(objs) : objs[k] = o})

\* C14: while an object is locked, no transform update, style update or
\* removal changes it or takes it out of the canvas: after every editing
\* operation each locked object is still there as it was.
C14_LockedImmutable ==
    [][lastOp' = "mutation" =>
          \A i \in 1..Len(objects) :
              objects[i].locked =>
                  Count(objects', objects[i]) >= Count(objects, objects[i])]_vars


\* C15: a transform update whose result would have a scale <= 0 (width or
\* height set to 0 or less in the properties panel) fails and leaves the
\* object as it was; and every object of the canvas has scaleX > 0,
\* scaleY > 0 and an opacity between 0 and 1.
C15_DegenerateRejected ==
    /\ \A i \in 1..Len(objects) :
          /\ objects[i].scaleX > 0
          /\ objects[i].scaleY > 0
          /\ objects[i].opacity \in 0..Unit
    /\ Cardinality(active) = 1 =>
          \A property \in {"width", "height"}, value \in SizeInputs :
              LET o == objects[Min(active)]
                  originalSize == IF property = "width" THEN o.width ELSE o.height
              IN  (value * Unit) \div originalSize <= 0 =>
                      UpdateObjectSize(World, property, value) =
                          [world |-> World, result |-> FALSE]


NotPlaceholder(o) == ~(o.kind = "text" /\ ~o.selectable)

\* The objects of objs that an add keeps: all but the placeholder texts.
Kept(objs) == SelectSeq(objs, NotPlaceholder)

\* C16: when addText, addImage or addMemeTemplate has completed, the new
\* object is the last of the canvas' objects (the one painted last), on top
\* of the objects that were there, in their order.
C16_AddAppendsFront ==
    [][(lastOp' \in {"addText", "addImage", "addMemeTemplate"} /\ lastResult') =>
          /\ Len(objects') >= 1
          /\ SubSeq(objects', 1, Len(objects') - 1) \in {objects, Kept(objects)}
          /\ objects'[Len(objects')].kind =
                 IF lastOp' = "addText" THEN "text" ELSE "image"]_vars


\* C17: the active selection is none or exactly one object, and that object
\* is on the canvas: no operation makes two objects active and a removal
\* never leaves a removed object selected.
C17_SingleSelection ==
    /\ Cardinality(active) <= 1
    /\ active \subseteq 1..Len(objects)


\* C18: a change of the canvas' dimensions (setDimensions, setCanvasSize,
\* the canvas-size buttons, the platform switch) changes the width and the
\* height only: the objects, with their positions, scales and order, and
\* the background colour are as before the call.
C18_ResizeOnlyDimensions ==
    [][lastOp' = "resize" =>
          /\ objects' = objects
          /\ backgroundColor' = backgroundColor
          /\ active' = active]_vars

C18_Witness == lastOp = "resize" /\ Len(objects) >= 1 /\ canvasWidth = 1080


\* C19: after clearCanvas the canvas has no objects, its background colour
\* is the default and nothing is selected; with the plain 2D canvas, no text
\* element and no background image is left to draw.
C19_ClearEmpties ==
    [][/\ lastOp' = "clearCanvas" =>
             /\ objects' = << >>
             /\ active' = {}
             /\ backgroundColor' = DefaultBackground
       /\ lastOp' = "plainClearCanvas" =>
             /\ elements' = << >>
             /\ backgroundImage' = NoBackgroundImage]_vars


\* C20: when the image of addImage / addMemeTemplate fails to load, the
\* canvas' objects are those from before the call (the placeholder texts
\* included, in the same order) and the call committed no history entry.
\* Read in the state right after the failure, when nothing else ran since
\* the call.
C20_FailedAddIsNoop ==
    (/\ load.stage = "done"
     /\ lastOp \in {"addImage", "addMemeTemplate"}
     /\ ~lastResult
     /\ steps = load.steps0
     /\ now = load.now1)
        => /\ objects = load.before
           /\ now = load.now0


\* C21: updateMeme on an id that is not stored returns undefined and
\* deleteMeme on such an id returns false, both leaving every record as it
\* was, with status 404 from the routes; deleteMeme returns true exactly
\* when the record existed, and after it getMeme(id) returns undefined.
C21_NotFound ==
    [][/\ lastStore'.op = "updateMeme" =>
             /\ lastStore'.found = (lastStore'.id \in DOMAIN memes)
             /\ lastStore'.id \notin DOMAIN memes =>
                    memes' = memes /\ lastStore'.status = 404
       /\ lastStore'.op = "deleteMeme" =>
             /\ lastStore'.found = (lastStore'.id \in DOMAIN memes)
             /\ lastStore'.id \notin DOMAIN memes =>
                    memes' = memes /\ lastStore'.status = 404
             /\ ~GetMeme([memes |-> memes', currentMemeId |-> currentMemeId'],
                         lastStore'.id).found
             /\ \A k \in DOMAIN memes \ {lastStore'.id} :
                    k \in DOMAIN memes' /\ memes'[k] = memes[k]]_vars

C21_Witness ==
    /\ lastStore.op = "deleteMeme"
    /\ ~lastStore.found
    /\ lastStore.status = 404
    /\ DOMAIN memes # {}
    /\ lastStore.id < currentMemeId


\* An upload the server has to refuse.
Rejected(file) == file.mime[1] # "image" \/ file.size > MaxFileSize

\* The images on the canvas and the one being loaded.
Images ==
    Cardinality({i \in 1..Len(objects) : objects[i].kind = "image"})
        + (IF load.stage \in {"loading", "loaded"} THEN 1 ELSE 0)

C23_RestoreCommitsNothing ==
    [][(lastOp' \in {"undo", "redo"} /\ lastResult') =>
          /\ history' = history
          /\ lastOp' = "undo" => historyStep' < Len(history') - 1]_vars


\* C24: a drag does not flood the history: an object:moving event, with the
\* adjustment the snapping handler makes, adds no history entry, and the
\* release of the drag (object:modified) adds exactly one.
C24_DragCommitsOnce ==
    [][/\ lastOp' = "moving" =>
             /\ history' = history
             /\ historyStep' = historyStep
             /\ now' = now
       /\ (drag.target # 0 /\ drag'.target = 0) =>
             /\ now' = now + 1
             /\ lastFired' = 1]_vars

C24_Witness ==
    /\ lastOp = "modified"
    /\ drag.target = 0
    /\ drag.snapped
    /\ Len(history) >= 2

\* The axis x of the rectangles of `snap`: whether an edge of another
\* rectangle was within the distance, and whether an edge of the dragged
\* one lies on the same edge of such a rectangle afterwards.
SnapNearX(other) ==
    \/ Abs(snap.obj.left - other.left) < SnapDistance
    \/ Abs((snap.obj.left + snap.obj.width) - (other.left + other.width))
           < SnapDistance

SnapOnX(other) ==
    \/ /\ Abs(snap.obj.left - other.left) < SnapDistance
       /\ snap.after.left = other.left
    \/ /\ Abs((snap.obj.left + snap.obj.width) - (other.left + other.width))
              < SnapDistance
       /\ snap.after.left + snap.obj.width = other.left + other.width

SnapNearY(other) ==
    \/ Abs(snap.obj.top - other.top) < SnapDistance
    \/ Abs((snap.obj.top + snap.obj.height) - (other.top + other.height))
           < SnapDistance

SnapOnY(other) ==
    \/ /\ Abs(snap.obj.top - other.top) < SnapDistance
       /\ snap.after.top = other.top
    \/ /\ Abs((snap.obj.top + snap.obj.height) - (other.top + other.height))
              < SnapDistance
       /\ snap.after.top + snap.obj.height = other.top + other.height

\* C25: after the object:moving handler of enableSnapping(d), on each axis
\* the dragged object is where it was when no other object's edge was
\* within d, and otherwise one of its edges lies exactly on the same edge
\* of another object that was within d.
C25_SnapResult ==
    LET others == {snap.others[k] : k \in 1..Len(snap.others)}
    IN  /\ IF \E o \in others : SnapNearX(o)
           THEN \E o \in others : SnapOnX(o)
           ELSE snap.after.left = snap.obj.left
        /\ IF \E o \in others : SnapNearY(o)
           THEN \E o \in others : SnapOnY(o)
           ELSE snap.after.top = snap.obj.top


\* C26: the cursor stays inside the history: -1 <= historyStep <=
\* Len(history) - 1, Len(history) <= maxHistorySize, historyStep = -1
\* exactly when the history is empty, and a saveState call from any state
\* reached leaves the cursor on the last entry.
C26_CursorInvariant ==
    /\ historyStep >= -1
    /\ historyStep <= Len(history) - 1
    /\ Len(history) <= maxHistorySize
    /\ (historyStep = -1) <=> (history = << >>)
    /\ LET saved == SaveState([history |-> history, historyStep |-> historyStep,
                               now |-> now], objects)
       IN  /\ saved.historyStep = Len(saved.history) - 1
           /\ Len(saved.history) <= maxHistorySize
    /\ (lastFired > 0) => historyStep = Len(history) - 1

C26_Witness ==
    /\ now > maxHistorySize
    /\ Len(history) = maxHistorySize
    /\ historyStep = Len(history) - 1
    /\ lastOp = "undo"
    /\ lastResult


\* The objects the user made: all but the two placeholder texts MemeCanvas
\* created.
UserCreated(o) == \A k \in 1..Len(Placeholders) : o.text # Placeholders[k].text

\* C27: addText and addImage remove only the two initial placeholder texts:
\* every other object on the canvas before the operation, a text locked
\* with lockObject included, is on the canvas after it, in its place among
\* the others.
C27_AddKeepsUserObjects ==
    [][(lastOp' \in {"addText", "addImage", "loadImage"} /\ lastResult') =>
          LET before == SelectSeq(objects, UserCreated)
              after == SelectSeq(objects', UserCreated)
          IN  /\ Len(after) >= Len(before)
              /\ SubSeq(after, 1, Len(before)) = before]_vars


\* C28: on the plain 2D canvas the size set by setDimensions stays through
\* the addText calls and image loads that follow: neither changes the
\* width or the height of the canvas element.
C28_PlainSizePersists ==
    [][lastOp' \in {"plainAddText", "loadImage", "plainAddImage"} =>
          plainSize' = plainSize]_vars


\* drawCanvas of the 2D canvas: what it paints, in order: the background
\* image when there is one, then the elements.
DrawCanvas ==
    (IF backgroundImage # NoBackgroundImage
     THEN << [kind |-> "image", text |-> "src", width |-> backgroundImage[1]] >>
     ELSE << >>)
    \o [i \in 1..Len(elements) |->
           [kind |-> "text", text |-> elements[i].content, width |-> 0]]

\* What the component of the generation paints, bottom first.
Painted ==
    IF gen.via = "plain" THEN DrawCanvas
    ELSE [i \in 1..Len(objects) |->
            [kind |-> objects[i].kind, text |-> objects[i].text,
             width |-> objects[i].width]]

GeneratedImages ==
    {i \in 1..Len(Painted) :
        Painted[i].kind = "image" /\ Painted[i].width = GeneratedSize[1]}

Captions(text) ==
    {i \in 1..Len(Painted) : Painted[i].kind = "text" /\ Painted[i].text = text}

\* C29: after a generation (addImage, then addText for the top and the
\* bottom caption), once the load of the generated image has completed the
\* image is painted before both captions, whenever the load's callback ran
\* among the addText calls and the adds the user made later.
C29_GeneratedImageBehind ==
    (gen.stage = "done" /\ gen.load = "done") =>
        /\ Captions(SuggestedTop) # {}
        /\ Captions(SuggestedBottom) # {}
        /\ gen.via = "MemeCanvas" => GeneratedImages # {}
        /\ \A i \in GeneratedImages :
               \A j \in Captions(SuggestedTop) \cup Captions(SuggestedBottom) :
                   i < j

C29_Witness ==
    /\ gen.stage = "done"
    /\ gen.load = "done"
    /\ gen.late
    /\ gen.via = "MemeCanvas"
    /\ GeneratedImages = {1}
    /\ Len(objects) >= 4


\* C30: seeding happens once: however many seedDatabase invocations run,
\* one after the other or overlapping, none ends with a duplicate-key
\* error, and when all that started have ended the templates and the
\* stickers table hold exactly the seed rows.
C30_SeedsOnce ==
    /\ \A p \in SeedRuns : seed[p].error # "duplicate key"
    /\ ((\A p \in SeedRuns : seed[p].pc \in {"idle", "done", "failed"})
           /\ (\E p \in SeedRuns : seed[p].pc # "idle")) =>
          /\ templates = SeedTemplates
          /\ stickers = SeedStickers

====
